---- MODULE Spec2Model ----
(***************************************************************************)
(* A model of the numeric core of the repository:                          *)
(*   QuantA_single_asset/single_asset_module.py  (strategies, metrics)     *)
(*   QuantB_portfolio/portfolio_module.py        (weights, rebalancing,    *)
(*                                                portfolio metrics)       *)
(*                                                                         *)
(* Every function of the code is a pure function of its arguments, so each *)
(* one is modelled as a small state machine of its own: Init draws the     *)
(* arguments from bounded sets and one action is taken per statement (or   *)
(* per loop iteration) of the function.  The components share no state;    *)
(* a component that is not running holds the value Idle.                   *)
(*                                                                         *)
(* Numbers.  A pandas/numpy float is modelled as an exact rational         *)
(* <<n, d>> in lowest terms with d > 0; NaN is the pair <<0, 0>>.  The     *)
(* formulas of the code are therefore checked as formulas over the reals.  *)
(* The one place where the rounding of binary floating point is modelled   *)
(* is the buy-and-hold cost basis (Fl, SpecBuyHold), where the property of *)
(* interest is an exact equality of two floats.                            *)
(*                                                                         *)
(* Dates.  A date is a day number of a fixed calendar fragment that starts *)
(* on Tuesday 2024-01-30 (day 0); see Weekday, WeekEnd and MonthEnd.       *)
(***************************************************************************)
EXTENDS Integers, Sequences, FiniteSets, TLC

VARIABLES mom, pf, nw, dd, bh, mt, rc, fc

vars == <<mom, pf, nw, dd, bh, mt, rc, fc>>

\* The value a component's variable holds while another component runs.
Idle == [pc |-> "idle"]

-----------------------------------------------------------------------------
(* Bounds of the model.                                                    *)

\* Longest Close series given to the single-asset strategies.
MaxLen == 4
\* Largest price (prices are the integers 1..MaxPrice).
MaxPrice == 3
\* Largest lookback window of the momentum strategy.
MaxLookback == 2
\* Most rows (dates) of a price table given to compute_portfolio_value.
MaxRows == 3
\* Largest raw weight (raw weights are the integers 0..MaxWeight).
MaxWeight == 2
\* Longest value series given to the drawdown calculations.
MaxSeries == 4
\* The values of such a series are the halves 1/2, 2/2, ..., MaxHalves/2.
MaxHalves == 4
\* Bits of the significand of the modelled binary floating point format
\* (binary64 has 53; TLC's integers allow only a narrow format).
Precision == 4
\* Longest Close series given to buy_and_hold_strategy.
MaxBhLen == 2

-----------------------------------------------------------------------------
(* Exact rational arithmetic, standing for float arithmetic.               *)

Abs(x) == IF x < 0 THEN -x ELSE x

RECURSIVE GCD(_, _)
GCD(a, b) == IF b = 0 THEN a ELSE GCD(b, a % b)

\* The rational n/d (d # 0) in lowest terms with a positive denominator.
Rat(n, d) ==
    LET g == GCD(Abs(n), Abs(d))
        s == IF d < 0 THEN -1 ELSE 1
    IN  <<(s * n) \div g, (s * d) \div g>>

NaN == <<0, 0>>
IsNaN(x) == x[2] = 0
Zero == <<0, 1>>
One == <<1, 1>>
FromInt(i) == <<i, 1>>

RAdd(a, b) == IF IsNaN(a) \/ IsNaN(b) THEN NaN
              ELSE Rat(a[1] * b[2] + b[1] * a[2], a[2] * b[2])
RSub(a, b) == IF IsNaN(a) \/ IsNaN(b) THEN NaN
              ELSE Rat(a[1] * b[2] - b[1] * a[2], a[2] * b[2])
RMul(a, b) == IF IsNaN(a) \/ IsNaN(b) THEN NaN
              ELSE Rat(a[1] * b[1], a[2] * b[2])
\* Division; the model never divides a number by zero except 0/0, which is
\* NaN as in numpy.
RDiv(a, b) == IF IsNaN(a) \/ IsNaN(b) \/ b[1] = 0 THEN NaN
              ELSE Rat(a[1] * b[2], a[2] * b[1])
\* Comparisons; any comparison with NaN is False, as in IEEE 754.
RLt(a, b) == ~IsNaN(a) /\ ~IsNaN(b) /\ a[1] * b[2] < b[1] * a[2]
RLe(a, b) == ~IsNaN(a) /\ ~IsNaN(b) /\ a[1] * b[2] <= b[1] * a[2]
RGt(a, b) == RLt(b, a)

-----------------------------------------------------------------------------
(* pandas Series operations, on sequences indexed 1..Len (row t of the     *)
(* code, counted from 0, is element t + 1).                                *)

\* Series.shift(k): every value moves k rows down, the first k become NaN.
Shift(s, k) == [t \in 1..Len(s) |-> IF t <= k THEN NaN ELSE s[t - k]]

\* Series.fillna(v)
FillNa(s, v) == [t \in 1..Len(s) |-> IF IsNaN(s[t]) THEN v ELSE s[t]]

\* Series.pct_change(): s / s.shift(1) - 1
PctChange(s) ==
    LET p == Shift(s, 1)
    IN  [t \in 1..Len(s) |-> RSub(RDiv(s[t], p[t]), One)]

\* Series.cumprod()
RECURSIVE CumProdAt(_, _)
CumProdAt(s, t) == IF t = 1 THEN s[1] ELSE RMul(CumProdAt(s, t - 1), s[t])
CumProd(s) == [t \in 1..Len(s) |-> CumProdAt(s, t)]

\* A variant of CumMax: the maximum of the whole series at every row
\* (max() where cummax() is meant).
WholeMax(s) ==
    [t \in 1..Len(s) |->
        CHOOSE m \in {s[i] : i \in 1..Len(s)} : \A i \in 1..Len(s) : RLe(s[i], m)]

\* Series.cummax()
RECURSIVE CumMaxAt(_, _)
CumMaxAt(s, t) ==
    IF t = 1 THEN s[1]
    ELSE LET m == CumMaxAt(s, t - 1) IN IF RLt(m, s[t]) THEN s[t] ELSE m
CumMax(s) == [t \in 1..Len(s) |-> CumMaxAt(s, t)]

\* Series.min() of a non-empty series
RECURSIVE MinAt(_, _)
MinAt(s, t) ==
    IF t = 1 THEN s[1]
    ELSE LET m == MinAt(s, t - 1) IN IF RLt(s[t], m) THEN s[t] ELSE m
SeriesMin(s) == MinAt(s, Len(s))

\* All sequences over S of length lo..hi.
SeqsOf(S, lo, hi) == UNION {[1..n -> S] : n \in lo..hi}

-----------------------------------------------------------------------------
(* momentum_strategy (single_asset_module.py, lines 49-71).                *)

\* The Close column after dropna: positive prices.
CloseSeries == SeqsOf({FromInt(p) : p \in 1..MaxPrice}, 1, MaxLen)
Thresholds == {Zero, Rat(1, 2)}
InitialCapitals == {FromInt(1), FromInt(10000)}

\* A variant of Lookback_Return without warm-up: the rows that have no price
\* lookback rows earlier are compared with the first price instead.
Lookback_Return_Backfilled(Close, lookback) ==
    [t \in 1..Len(Close) |->
        RSub(RDiv(Close[t], IF t <= lookback THEN Close[1] ELSE Close[t - lookback]),
             One)]

\* line 60: out["Close"] / out["Close"].shift(lookback) - 1.0
Lookback_Return(Close, lookback) ==
    LET p == Shift(Close, lookback)
    IN  [t \in 1..Len(Close) |-> RSub(RDiv(Close[t], p[t]), One)]

\* line 61: (out["Lookback_Return"] > threshold).astype(int)
Signal(lbr, threshold) ==
    [t \in 1..Len(lbr) |-> IF RGt(lbr[t], threshold) THEN One ELSE Zero]

\* line 64: out["Close"].pct_change().fillna(0.0)
Asset_Return(Close) == FillNa(PctChange(Close), Zero)

\* A look-ahead variant of Position: the signal of the same row, unshifted.
PositionNoLag(sig) == sig

\* The position a row's return is earned with: line 67's
\* out["Signal"].shift(1).fillna(0).astype(int)
Position(sig) == FillNa(Shift(sig, 1), Zero)

\* line 67: position * out["Asset_Return"]
Strategy_Return(sig, ar) ==
    LET pos == Position(sig)
    IN  [t \in 1..Len(ar) |-> RMul(pos[t], ar[t])]

\* line 70: initial_capital * (1.0 + out["Strategy_Return"]).cumprod()
Holdings(initial_capital, sr) ==
    LET g == CumProd([t \in 1..Len(sr) |-> RAdd(One, sr[t])])
    IN  [t \in 1..Len(sr) |-> RMul(initial_capital, g[t])]

MomInit ==
    /\ mom \in [pc : {"start"}, Close : CloseSeries, lookback : 1..MaxLookback,
                threshold : Thresholds, initial_capital : InitialCapitals,
                Lookback_Return : {<<>>}, Signal : {<<>>}, Asset_Return : {<<>>},
                Strategy_Return : {<<>>}, Holdings : {<<>>}]
    /\ pf = Idle /\ nw = Idle /\ dd = Idle /\ bh = Idle
    /\ mt = Idle /\ rc = Idle /\ fc = Idle

MomLookbackReturn ==
    /\ mom.pc = "start"
    /\ mom' = [mom EXCEPT !.pc = "lookback_return",
                          !.Lookback_Return = Lookback_Return(mom.Close, mom.lookback)]
    /\ UNCHANGED <<pf, nw, dd, bh, mt, rc, fc>>

MomSignal ==
    /\ mom.pc = "lookback_return"
    /\ mom' = [mom EXCEPT !.pc = "signal",
                          !.Signal = Signal(mom.Lookback_Return, mom.threshold)]
    /\ UNCHANGED <<pf, nw, dd, bh, mt, rc, fc>>

MomAssetReturn ==
    /\ mom.pc = "signal"
    /\ mom' = [mom EXCEPT !.pc = "asset_return",
                          !.Asset_Return = Asset_Return(mom.Close)]
    /\ UNCHANGED <<pf, nw, dd, bh, mt, rc, fc>>

MomStrategyReturn ==
    /\ mom.pc = "asset_return"
    /\ mom' = [mom EXCEPT !.pc = "strategy_return",
                          !.Strategy_Return = Strategy_Return(mom.Signal, mom.Asset_Return)]
    /\ UNCHANGED <<pf, nw, dd, bh, mt, rc, fc>>

MomHoldings ==
    /\ mom.pc = "strategy_return"
    /\ mom' = [mom EXCEPT !.pc = "done",
                          !.Holdings = Holdings(mom.initial_capital, mom.Strategy_Return)]
    /\ UNCHANGED <<pf, nw, dd, bh, mt, rc, fc>>

MomNext ==
    \/ MomLookbackReturn
    \/ MomSignal
    \/ MomAssetReturn
    \/ MomStrategyReturn
    \/ MomHoldings

SpecMomentum == MomInit /\ [][MomNext]_vars

\* The Strategy_Return column has been assigned.
MomReturned == mom.pc \in {"strategy_return", "done"}

\* C1: in momentum_strategy the strategy return of the first row is 0 and the
\* strategy return of every later row t is Signal[t-1] * (Close[t] / Close[t-1] - 1):
\* the signal of row t itself is never used for row t, so a price jump that
\* first turns the signal on at t earns nothing at t.
C1_StrategyReturnIsLagged ==
    MomReturned =>
        /\ mom.Strategy_Return[1] = Zero
        /\ \A t \in 2..Len(mom.Close) :
              /\ mom.Strategy_Return[t] =
                   RMul(mom.Signal[t - 1],
                        RSub(RDiv(mom.Close[t], mom.Close[t - 1]), One))
              /\ (mom.Signal[t - 1] = Zero /\ mom.Signal[t] = One)
                   => mom.Strategy_Return[t] = Zero

\* C1 witness: a price jump at row t turns the signal on at t (it was off at
\* t - 1); nothing is earned at t and the next row's return is earned.
C1_JumpEarnedNextRow ==
    /\ MomReturned
    /\ \E t \in 2..(Len(mom.Close) - 1) :
          /\ RLt(mom.Close[t - 1], mom.Close[t])
          /\ mom.Signal[t - 1] = Zero
          /\ mom.Signal[t] = One
          /\ mom.Strategy_Return[t] = Zero
          /\ mom.Strategy_Return[t + 1] # Zero
          /\ mom.Strategy_Return[t + 1] =
               RSub(RDiv(mom.Close[t + 1], mom.Close[t]), One)

\* C20: in momentum_strategy the signal is 0 at every row with fewer than
\* lookback rows before it (row index t < lookback, counted from 0), so the
\* holdings equal initial_capital at every row index t <= lookback; when
\* lookback >= the length of the series this is every row.
C20_WarmUpIsFlat ==
    mom.pc = "done" =>
        /\ \A t \in 1..Len(mom.Close) :
              /\ (t - 1 < mom.lookback) => mom.Signal[t] = Zero
              /\ (t - 1 <= mom.lookback) => mom.Holdings[t] = mom.initial_capital
        /\ (mom.lookback >= Len(mom.Close)) =>
              \A t \in 1..Len(mom.Close) :
                  mom.Signal[t] = Zero /\ mom.Holdings[t] = mom.initial_capital

\* C20 witness: the price rises by more than the threshold inside the warm-up
\* rows, the holdings stay at initial_capital up to row index lookback and
\* move afterwards.
C20_RiseInWarmUpIgnored ==
    /\ mom.pc = "done"
    /\ Len(mom.Close) > mom.lookback + 1
    /\ RGt(RSub(RDiv(mom.Close[2], mom.Close[1]), One), mom.threshold)
    /\ \A t \in 1..(mom.lookback + 1) : mom.Holdings[t] = mom.initial_capital
    /\ mom.Holdings[Len(mom.Close)] # mom.initial_capital

-----------------------------------------------------------------------------
(* The calendar.  Day 0 is Tuesday 2024-01-30, so day 1 is Wednesday       *)
(* 2024-01-31 (a month end), day 5 is Sunday 2024-02-04 (a week end) and   *)
(* day 30 is Thursday 2024-02-29.                                          *)

\* 0 = Monday ... 6 = Sunday
Weekday(d) == (d + 1) % 7

\* The label pandas gives the weekly bin of d under resample("W") (W-SUN,
\* closed and labelled on the right): the Sunday that ends d's week.
WeekEnd(d) == d + (6 - Weekday(d))

\* The label of the monthly bin of d under resample("M"): the last calendar
\* day of d's month (January 2024 ends on day 1, February 2024 on day 30).
MonthEnd(d) == IF d <= 1 THEN 1 ELSE 30

\* The sorted sequence of a finite set of days (a DatetimeIndex in order).
RECURSIVE SortedSeq(_)
SortedSeq(S) ==
    IF S = {} THEN <<>>
    ELSE LET m == CHOOSE x \in S : \A y \in S : x <= y
         IN  <<m>> \o SortedSeq(S \ {m})

Range(s) == {s[i] : i \in 1..Len(s)}

-----------------------------------------------------------------------------
(* Portfolio helpers (portfolio_module.py, lines 95-131).                  *)

\* The asset universe: the columns of the price table.
Assets == {"A", "B"}

\* Series.sum() over the columns S of a Series f.
RECURSIVE RSum(_, _)
RSum(f, S) ==
    IF S = {} THEN Zero
    ELSE LET a == CHOOSE x \in S : TRUE IN RAdd(f[a], RSum(f, S \ {a}))

\* lines 100-103: weights.reindex(columns).fillna(0.0).  `weights` is a dict
\* or Series: a function from some labels to numbers (NaN allowed); a label
\* of `columns` it lacks gets NaN and then 0, a label outside `columns` is
\* dropped.
Reindexed(weights, columns) ==
    [c \in columns |->
        IF c \in DOMAIN weights /\ ~IsNaN(weights[c]) THEN weights[c] ELSE Zero]

\* A variant of normalize_weights without the zero-sum fallback: it divides
\* by the sum whatever it is (0/0 is NaN).
normalize_weights_no_fallback(weights, columns) ==
    LET r == Reindexed(weights, columns)
        s == RSum(r, columns)
    IN  [c \in columns |-> RDiv(r[c], s)]

\* lines 95-107 (weights is not None)
normalize_weights(weights, columns) ==
    LET r == Reindexed(weights, columns)
        s == RSum(r, columns)
    IN  IF s = Zero
        THEN [c \in columns |-> Rat(1, Cardinality(columns))]
        ELSE [c \in columns |-> RDiv(r[c], s)]

\* A variant of _rebal_dates in which "daily" falls through to the
\* period-end selection of "weekly".
daily_as_weekly_rebal_dates(index, freq) ==
    CASE freq = "none" -> {}
      [] freq \in {"daily", "weekly"} ->
            Range(index) \cap {WeekEnd(d) : d \in Range(index)}
      [] freq = "monthly" -> Range(index) \cap {MonthEnd(d) : d \in Range(index)}
      [] OTHER -> {}

\* lines 110-131: the set of dates of `index` (a sorted sequence of days) on
\* which to rebalance.
_rebal_dates(index, freq) ==
    CASE freq = "none" -> {}
      [] freq = "daily" -> Range(index)
      [] freq = "weekly" -> Range(index) \cap {WeekEnd(d) : d \in Range(index)}
      [] freq = "monthly" -> Range(index) \cap {MonthEnd(d) : d \in Range(index)}
      [] OTHER -> {}

-----------------------------------------------------------------------------
(* compute_portfolio_value (portfolio_module.py, lines 138-182).           *)

Schedules == {"none", "daily", "weekly", "monthly"}

\* line 162: prices / prices.iloc[0]
Norm(prices) ==
    [t \in 1..Len(prices) |-> [a \in Assets |-> RDiv(prices[t][a], prices[1][a])]]

\* A variant of UnitsFor that forgets to divide by the current prices.
UnitsIgnoringPrices(V, w, row) == [a \in Assets |-> RMul(V, w[a])]

\* lines 167 and 178: (V * w) / row
UnitsFor(V, w, row) == [a \in Assets |-> RDiv(RMul(V, w[a]), row[a])]

\* line 174: float((units * row).sum())
ValueOf(units, row) == RSum([a \in Assets |-> RMul(units[a], row[a])], Assets)

\* A variant of ShouldReset that forgets the schedule: every date but the
\* first resets the units.
ShouldResetAnyDate(dt, dates, first, rebalancing) == dt # first

\* line 177: whether the units are reset on date dt
ShouldReset(dt, dates, first, rebalancing) ==
    dt \in dates /\ dt # first /\ rebalancing # "none"

\* A price table with complete rows: a date index (strictly increasing days)
\* and one row of positive prices per date.
\* The dates are drawn from the days Tuesday 2024-01-30 to Sunday 2024-02-04,
\* which hold a month end (day 1) and a week end (day 5); the prices of a
\* row are drawn from PriceLevels.
Days == 0..5
PriceLevels == {1, 2}
Indexes == {SortedSeq(S) : S \in {T \in SUBSET Days : Cardinality(T) \in 1..MaxRows}}
PriceRows == [Assets -> {FromInt(p) : p \in PriceLevels}]
\* The raw weights: the all-zero vector and every vector over 0..MaxWeight
\* whose entries have no common factor (a multiple of such a vector is
\* normalized to the same w by PfSetup).
RawWeights ==
    {w \in [Assets -> {FromInt(x) : x \in 0..MaxWeight}] :
        \/ \A a \in Assets : w[a] = Zero
        \/ /\ \E a \in Assets : w[a] # Zero
           /\ \A g \in 2..MaxWeight : \E a \in Assets : w[a][1] % g # 0}

PfInit ==
    /\ \E index \in Indexes :
       \E prices \in [1..Len(index) -> PriceRows] :
       \E weights \in RawWeights :
       \E rebalancing \in Schedules :
          pf = [pc |-> "start", index |-> index, prices |-> prices,
                weights |-> weights, rebalancing |-> rebalancing,
                w |-> <<>>, norm |-> <<>>, V |-> Zero, units |-> <<>>,
                rebal_dates |-> {}, k |-> 0, out |-> <<>>, reset_dates |-> {}]
    /\ mom = Idle /\ nw = Idle /\ dd = Idle /\ bh = Idle
    /\ mt = Idle /\ rc = Idle /\ fc = Idle

\* lines 157-170: everything before the loop
PfSetup ==
    /\ pf.pc = "start"
    /\ LET w == normalize_weights(pf.weights, Assets)
           norm == Norm(pf.prices)
       IN  pf' = [pf EXCEPT !.pc = "loop", !.w = w, !.norm = norm, !.V = One,
                            !.units = UnitsFor(One, w, norm[1]),
                            !.rebal_dates = _rebal_dates(pf.index, pf.rebalancing)]
    /\ UNCHANGED <<mom, nw, dd, bh, mt, rc, fc>>

\* lines 173-178: one iteration of the loop over norm.iterrows().
\* reset_dates records the dates on which line 178 ran.
PfIterate ==
    /\ pf.pc = "loop"
    /\ pf.k < Len(pf.index)
    /\ LET dt == pf.index[pf.k + 1]
           row == pf.norm[pf.k + 1]
           V == ValueOf(pf.units, row)
           reset == ShouldReset(dt, pf.rebal_dates, pf.index[1], pf.rebalancing)
       IN  pf' = [pf EXCEPT !.k = pf.k + 1, !.V = V,
                            !.out = Append(pf.out, <<dt, V>>),
                            !.units = IF reset THEN UnitsFor(V, pf.w, row) ELSE pf.units,
                            !.reset_dates = IF reset THEN pf.reset_dates \cup {dt}
                                            ELSE pf.reset_dates]
    /\ UNCHANGED <<mom, nw, dd, bh, mt, rc, fc>>

\* lines 180-182: the loop is over, the value series is returned
PfReturn ==
    /\ pf.pc = "loop"
    /\ pf.k = Len(pf.index)
    /\ pf' = [pf EXCEPT !.pc = "done"]
    /\ UNCHANGED <<mom, nw, dd, bh, mt, rc, fc>>

PfNext ==
    \/ PfSetup
    \/ PfIterate
    \/ PfReturn

SpecPortfolio == PfInit /\ [][PfNext]_vars

\* The loop of compute_portfolio_value has started (units, V, out are set).
PfRunning == pf.pc \in {"loop", "done"}

\* The value the drift formula gives at row t: sum_i w_i * p[t][i] / p[1][i].
DriftValue(t) ==
    RSum([a \in Assets |->
            RDiv(RMul(pf.w[a], pf.prices[t][a]), pf.prices[1][a])], Assets)

\* The weighted one-period return of row t >= 2: sum_i w_i * (p[t][i]/p[t-1][i] - 1).
WeightedReturn(t) ==
    RSum([a \in Assets |->
            RMul(pf.w[a], RSub(RDiv(pf.prices[t][a], pf.prices[t - 1][a]), One))],
         Assets)

\* The latest date of the index in the same period (week or month) as d.
LastInPeriod(d, index, PeriodEnd(_)) ==
    \A e \in Range(index) : PeriodEnd(e) = PeriodEnd(d) => e <= d

\* C2: under the weekly (monthly) schedule the dates on which the units are
\* reset are exactly the latest index date of every calendar week (month)
\* that holds an index date, the first index date excluded.
C2_ResetOnLastDateOfPeriod ==
    pf.pc = "done" =>
        /\ pf.rebalancing = "weekly" =>
             pf.reset_dates = {d \in Range(pf.index) :
                                 d # pf.index[1] /\ LastInPeriod(d, pf.index, WeekEnd)}
        /\ pf.rebalancing = "monthly" =>
             pf.reset_dates = {d \in Range(pf.index) :
                                 d # pf.index[1] /\ LastInPeriod(d, pf.index, MonthEnd)}

\* C3: with rebalancing = "none" the units stay the ones set at the first
\* date (no reset) and the value at every date t is sum_i w_i * p[t][i] / p[1][i],
\* w being the normalized weights.
C3_NoneIsDrift ==
    (PfRunning /\ pf.rebalancing = "none") =>
        /\ pf.w = normalize_weights(pf.weights, Assets)
        /\ pf.units = pf.w
        /\ pf.reset_dates = {}
        /\ \A t \in 1..Len(pf.out) : pf.out[t] = <<pf.index[t], DriftValue(t)>>

\* C3 witness: a buy-and-hold run over MaxRows dates has ended with the
\* realised weight of an asset drifted away from its target.
C3_WeightsDrifted ==
    /\ pf.pc = "done" /\ pf.rebalancing = "none" /\ Len(pf.out) = MaxRows
    /\ pf.V # One
    /\ \E a, b \in Assets :
          /\ RLt(Zero, pf.w[a]) /\ RLt(pf.w[a], pf.w[b])
          /\ RDiv(RMul(pf.units[a], pf.norm[pf.k][a]), pf.V) # pf.w[a]

\* C4: with rebalancing = "daily" the value is 1 at the first date and at
\* every later date t it is value[t-1] * (1 + sum_i w_i * (p[t][i]/p[t-1][i] - 1)).
C4_DailyIsFixedWeight ==
    (PfRunning /\ pf.rebalancing = "daily") =>
        \A t \in 1..Len(pf.out) :
            /\ pf.out[t][1] = pf.index[t]
            /\ pf.out[t][2] = IF t = 1 THEN One
                              ELSE RMul(pf.out[t - 1][2], RAdd(One, WeightedReturn(t)))

\* C4 witness: a daily-rebalanced run over MaxRows dates has ended with a
\* value that differs from the drift (no reset) value of the same table.
C4_DailyDiffersFromDrift ==
    /\ pf.pc = "done" /\ pf.rebalancing = "daily" /\ Len(pf.out) = MaxRows
    /\ pf.V # DriftValue(MaxRows)
    /\ pf.V # One
    /\ \E a, b \in Assets : RLt(Zero, pf.w[a]) /\ RLt(pf.w[a], pf.w[b])

\* The iteration just taken reset the units (line 178 ran for row pf.k).
PfJustReset == pf.pc = "loop" /\ pf.k >= 1 /\ pf.index[pf.k] \in pf.reset_dates

\* C5: right after the units are reset on a rebalancing date, every asset's
\* weight units_i * price_i / V is its target weight w_i, and the units are
\* worth V at that date's prices.
C5_ResetMatchesTarget ==
    PfJustReset =>
        /\ \A a \in Assets :
              RDiv(RMul(pf.units[a], pf.norm[pf.k][a]), pf.V) = pf.w[a]
        /\ ValueOf(pf.units, pf.norm[pf.k]) = pf.V

\* C5 witness: a weekly or monthly reset that changed the units, at a date
\* where the value had moved away from 1.
C5_PeriodicResetChangedUnits ==
    /\ PfJustReset
    /\ pf.rebalancing \in {"weekly", "monthly"}
    /\ pf.V # One
    /\ pf.units # pf.w
    /\ \E a, b \in Assets : RLt(Zero, pf.w[a]) /\ RLt(pf.w[a], pf.w[b])

-----------------------------------------------------------------------------
(* normalize_weights called on its own (portfolio_module.py, lines 95-107), *)
(* as compute_risk_contributions and compute_return_contributions call it   *)
(* with the columns of a return table.                                      *)

Labels == {"A", "B", "C"}

\* A supplied weight vector: a dict or Series over any of the labels, each
\* entry a non-negative number or NaN.
SuppliedWeights ==
    UNION {[K -> {FromInt(x) : x \in 0..MaxWeight} \cup {NaN}] : K \in SUBSET Labels}

NwInit ==
    /\ \E columns \in (SUBSET Labels) \ {{}} :
       \E weights \in SuppliedWeights :
          nw = [pc |-> "start", columns |-> columns, weights |-> weights,
                result |-> <<>>]
    /\ mom = Idle /\ pf = Idle /\ dd = Idle /\ bh = Idle
    /\ mt = Idle /\ rc = Idle /\ fc = Idle

\* The whole call: the returned Series is all the caller gets.
NwNormalize ==
    /\ nw.pc = "start"
    /\ nw' = [nw EXCEPT !.pc = "done",
                        !.result = normalize_weights(nw.weights, nw.columns)]
    /\ UNCHANGED <<mom, pf, dd, bh, mt, rc, fc>>

NwNext == NwNormalize

SpecWeights == NwInit /\ [][NwNext]_vars

\* The supplied weights, restricted to the universe, sum to zero.
NwZeroSum == RSum(Reindexed(nw.weights, nw.columns), nw.columns) = Zero

\* C6: for a non-empty universe and non-negative supplied weights (assets may
\* be missing, all weights may be zero), normalize_weights returns a vector
\* indexed by exactly the universe whose entries sum to 1.
C6_NormalizedSumToOne ==
    nw.pc = "done" =>
        /\ DOMAIN nw.result = nw.columns
        /\ \A c \in nw.columns : RLe(Zero, nw.result[c])
        /\ RSum(nw.result, nw.columns) = One

\* C6 witness: a three-asset universe, a supplied vector that lacks one of the
\* assets and has unequal non-zero entries for the others.
C6_PartialVectorNormalized ==
    /\ nw.pc = "done"
    /\ nw.columns = Labels
    /\ \E a, b, c \in Labels :
          /\ c \notin DOMAIN nw.weights
          /\ a \in DOMAIN nw.weights /\ b \in DOMAIN nw.weights
          /\ nw.result[c] = Zero
          /\ RLt(Zero, nw.result[a]) /\ RLt(nw.result[a], nw.result[b])

\* C7: when the supplied weights sum to zero every asset of the universe gets
\* weight 1/n, and the caller can tell from the result that the fallback
\* happened: the result differs from what supplying equal weights returns.
C7_FallbackIsObservable ==
    (nw.pc = "done" /\ NwZeroSum) =>
        /\ \A c \in nw.columns : nw.result[c] = Rat(1, Cardinality(nw.columns))
        /\ nw.result # normalize_weights([c \in nw.columns |-> One], nw.columns)

-----------------------------------------------------------------------------
(* Maximum drawdown: _max_drawdown (single_asset_module.py, lines 77-80),   *)
(* and compute_portfolio_returns_from_value followed by                     *)
(* compute_portfolio_metrics (portfolio_module.py, lines 185-239), with     *)
(* simple returns (log_return = False).                                     *)

\* single_asset_module.py lines 78-80: min(equity_curve / cummax - 1)
_max_drawdown(equity_curve) ==
    LET running_max == CumMax(equity_curve)
        dd_ == [t \in 1..Len(equity_curve) |->
                    RSub(RDiv(equity_curve[t], running_max[t]), One)]
    IN  SeriesMin(dd_)

\* portfolio_module.py lines 196-198: pct_change(), then dropna() drops the
\* first row, whose change is NaN (values are positive, so nothing is inf).
ReturnsFromValue(port_value) ==
    LET r == PctChange(port_value)
    IN  SelectSeq(r, LAMBDA x : ~IsNaN(x))

\* portfolio_module.py line 227: (1 + port_returns).cumprod()
CumValue(port_returns) ==
    CumProd([t \in 1..Len(port_returns) |-> RAdd(One, port_returns[t])])

\* portfolio_module.py lines 229-231: min((cum_value - running_max) / running_max)
MaxDD(cum_value) ==
    LET running_max == CumMax(cum_value)
        drawdown == [t \in 1..Len(cum_value) |->
                        RDiv(RSub(cum_value[t], running_max[t]), running_max[t])]
    IN  SeriesMin(drawdown)

\* A value series: positive values, any length from 1 to MaxSeries.
ValueSeries == SeqsOf({Rat(h, 2) : h \in 1..MaxHalves}, 1, MaxSeries)

DdInit ==
    /\ \E v \in ValueSeries :
          dd = [pc |-> "start", port_value |-> v, equity_mdd |-> Zero,
                port_returns |-> <<>>, metrics_none |-> FALSE,
                cum_value |-> <<>>, max_drawdown |-> Zero]
    /\ mom = Idle /\ pf = Idle /\ nw = Idle /\ bh = Idle
    /\ mt = Idle /\ rc = Idle /\ fc = Idle

\* _max_drawdown(holdings), as calculate_metrics calls it (line 132)
DdMaxDrawdown ==
    /\ dd.pc = "start"
    /\ dd' = [dd EXCEPT !.pc = "equity_done",
                        !.equity_mdd = _max_drawdown(dd.port_value)]
    /\ UNCHANGED <<mom, pf, nw, bh, mt, rc, fc>>

\* compute_portfolio_returns_from_value(port_value)
DdReturnsFromValue ==
    /\ dd.pc = "start"
    /\ dd' = [dd EXCEPT !.pc = "returns",
                        !.port_returns = ReturnsFromValue(dd.port_value)]
    /\ UNCHANGED <<mom, pf, nw, bh, mt, rc, fc>>

\* compute_portfolio_metrics(port_returns): None for an empty series (lines
\* 213-214), else the cumulative curve and its maximum drawdown.
DdPortfolioMetrics ==
    /\ dd.pc = "returns"
    /\ IF dd.port_returns = <<>>
       THEN dd' = [dd EXCEPT !.pc = "metrics_done", !.metrics_none = TRUE]
       ELSE LET cum_value == CumValue(dd.port_returns)
            IN  dd' = [dd EXCEPT !.pc = "metrics_done", !.cum_value = cum_value,
                                 !.max_drawdown = MaxDD(cum_value)]
    /\ UNCHANGED <<mom, pf, nw, bh, mt, rc, fc>>

DdNext ==
    \/ DdMaxDrawdown
    \/ DdReturnsFromValue
    \/ DdPortfolioMetrics

SpecDrawdown == DdInit /\ [][DdNext]_vars

NonDecreasing(s) == \A t \in 2..Len(s) : RLe(s[t - 1], s[t])

\* The drawdown of a whole value curve, its first date included:
\* the least of v[t] / max(v[1..t]) - 1 over every t.
WholeCurveDrawdown(v) ==
    LET D(t) == RSub(RDiv(v[t], CHOOSE m \in {v[i] : i \in 1..t} :
                                   \A i \in 1..t : RLe(v[i], m)), One)
    IN  CHOOSE x \in {D(t) : t \in 1..Len(v)} : \A t \in 1..Len(v) : RLe(x, D(t))

\* compute_portfolio_metrics returned a result (not None).
DdMetricsReturned == dd.pc = "metrics_done" /\ ~dd.metrics_none

\* C8: for a portfolio value series (base 1 at its first date) and the
\* returns derived from it, the max_drawdown of compute_portfolio_metrics is
\* the drawdown of the whole value curve, first date included.
C8_DrawdownCoversBaseDate ==
    (DdMetricsReturned /\ dd.port_value[1] = One) =>
        dd.max_drawdown = WholeCurveDrawdown(dd.port_value)

\* C9: for a positive value series the maximum drawdown of _max_drawdown and
\* of compute_portfolio_metrics is <= 0, and it is 0 when the series is
\* non-decreasing.
C9_DrawdownNonPositive ==
    /\ dd.pc = "equity_done" =>
          /\ RLe(dd.equity_mdd, Zero)
          /\ NonDecreasing(dd.port_value) => dd.equity_mdd = Zero
    /\ DdMetricsReturned =>
          /\ RLe(dd.max_drawdown, Zero)
          /\ NonDecreasing(dd.cum_value) => dd.max_drawdown = Zero
          /\ NonDecreasing(dd.port_value) => dd.max_drawdown = Zero

\* C9 witness: compute_portfolio_metrics has measured a curve of MaxSeries
\* values that rises without ever falling, and reports a drawdown of 0.
C9_RisingCurveHasNoDrawdown ==
    /\ DdMetricsReturned
    /\ Len(dd.port_value) = MaxSeries
    /\ NonDecreasing(dd.cum_value)
    /\ RLt(dd.cum_value[1], dd.cum_value[Len(dd.cum_value)])
    /\ dd.max_drawdown = Zero

-----------------------------------------------------------------------------
(* Binary floating point.  Fl(x) is the float nearest to the rational x in *)
(* a binary format with Precision significand bits and no exponent limit,  *)
(* ties to even: IEEE 754 round-to-nearest-even, which every float         *)
(* operation of the code applies to its exact result.                      *)

RECURSIVE Pow2(_)
Pow2(k) == IF k = 0 THEN 1 ELSE 2 * Pow2(k - 1)

\* n/d > 0 written as (n'/d') * 2^e with 2^(Precision-1) <= n'/d' < 2^Precision:
\* the triple <<n', d', e>>.
RECURSIVE Scaled(_, _, _)
Scaled(n, d, e) ==
    IF n >= d * Pow2(Precision) THEN Scaled(n, 2 * d, e + 1)
    ELSE IF n < d * Pow2(Precision - 1) THEN Scaled(2 * n, d, e - 1)
    ELSE <<n, d, e>>

FlPos(x) ==
    LET sc == Scaled(x[1], x[2], 0)
        q == sc[1] \div sc[2]
        r == sc[1] - q * sc[2]
        m == IF 2 * r > sc[2] \/ (2 * r = sc[2] /\ q % 2 = 1) THEN q + 1 ELSE q
    IN  IF sc[3] >= 0 THEN Rat(m * Pow2(sc[3]), 1) ELSE Rat(m, Pow2(-sc[3]))

Fl(x) ==
    IF IsNaN(x) \/ x[1] = 0 THEN x
    ELSE IF x[1] < 0 THEN RSub(Zero, FlPos(<<-x[1], x[2]>>))
    ELSE FlPos(x)

\* The float operations: the exact result, rounded.
FDiv(a, b) == Fl(RDiv(a, b))
FMul(a, b) == Fl(RMul(a, b))
FSub(a, b) == Fl(RSub(a, b))

-----------------------------------------------------------------------------
(* buy_and_hold_strategy (single_asset_module.py, lines 29-46), in float   *)
(* arithmetic.                                                             *)

\* The numbers given to the function are floats themselves: the integers
\* below 2^Precision.
FloatInts == {FromInt(i) : i \in 1..(Pow2(Precision) - 1)}

\* line 43: initial_capital / first_price
Shares(initial_capital, first_price) == FDiv(initial_capital, first_price)

\* line 44: shares * out["Close"]
BhHoldingsOf(shares, Close) == [t \in 1..Len(Close) |-> FMul(shares, Close[t])]

\* line 45: out["Holdings"].pct_change().fillna(0.0)
BhReturnsOf(holdings) ==
    LET p == Shift(holdings, 1)
    IN  FillNa([t \in 1..Len(holdings) |-> FSub(FDiv(holdings[t], p[t]), One)], Zero)

BhInit ==
    /\ \E Close \in SeqsOf(FloatInts, 1, MaxBhLen) :
       \E initial_capital \in FloatInts :
          bh = [pc |-> "start", Close |-> Close, initial_capital |-> initial_capital,
                first_price |-> Zero, shares |-> Zero, Holdings |-> <<>>,
                Strategy_Return |-> <<>>]
    /\ mom = Idle /\ pf = Idle /\ nw = Idle /\ dd = Idle
    /\ mt = Idle /\ rc = Idle /\ fc = Idle

\* lines 34-37: the Close column has no missing value here (dropna keeps
\* every row); line 38's branch is BhInvalidPrice.
BhFirstPrice ==
    /\ bh.pc = "start"
    /\ bh' = [bh EXCEPT !.pc = "priced", !.first_price = bh.Close[1]]
    /\ UNCHANGED <<mom, pf, nw, dd, mt, rc, fc>>

\* lines 43-44
BhHoldings ==
    /\ bh.pc = "priced"
    /\ RLt(Zero, bh.first_price)
    /\ LET shares == Shares(bh.initial_capital, bh.first_price)
       IN  bh' = [bh EXCEPT !.pc = "holdings", !.shares = shares,
                            !.Holdings = BhHoldingsOf(shares, bh.Close)]
    /\ UNCHANGED <<mom, pf, nw, dd, mt, rc, fc>>

\* lines 45-46
BhStrategyReturn ==
    /\ bh.pc = "holdings"
    /\ bh' = [bh EXCEPT !.pc = "done", !.Strategy_Return = BhReturnsOf(bh.Holdings)]
    /\ UNCHANGED <<mom, pf, nw, dd, mt, rc, fc>>

BhNext ==
    \/ BhFirstPrice
    \/ BhHoldings
    \/ BhStrategyReturn

SpecBuyHold == BhInit /\ [][BhNext]_vars

\* C10: the value series equals the configured base exactly at its first
\* date: Holdings at the first valid date is initial_capital, for every first
\* price > 0.
C10_FirstHoldingIsCapital ==
    (bh.pc \in {"holdings", "done"} /\ RLt(Zero, bh.first_price)) =>
        bh.Holdings[1] = bh.initial_capital

-----------------------------------------------------------------------------
(* The two metric calculators: calculate_metrics (single_asset_module.py,  *)
(* lines 83-140) and compute_portfolio_metrics (portfolio_module.py, lines *)
(* 203-239).                                                               *)
(*                                                                         *)
(* A volatility is the square root of a rational, so the numbers that      *)
(* involve one are kept as a pair [q, rad] standing for q * sqrt(rad).     *)

\* Most rows of a frame or return series given to the metric calculators.
MaxMetricRows == 3
\* Largest number of periods per year (trading_days, periods_per_year).
MaxPeriods == 2

Surd(q, rad) == [q |-> q, rad |-> rad]
SurdIsNaN(x) == IsNaN(x.q) \/ IsNaN(x.rad)
SurdIsZero(x) == ~SurdIsNaN(x) /\ (x.q = Zero \/ x.rad = Zero)
SurdPositive(x) == RGt(x.q, Zero) /\ RGt(x.rad, Zero)

\* Series.dropna()
DropNa(s) == SelectSeq(s, LAMBDA x : ~IsNaN(x))

RECURSIVE SeqSum(_, _)
SeqSum(s, t) == IF t = 0 THEN Zero ELSE RAdd(SeqSum(s, t - 1), s[t])

\* Series.mean() of a series without NaN (NaN for an empty one)
Mean(s) == RDiv(SeqSum(s, Len(s)), FromInt(Len(s)))

\* The square of Series.std(): the sample variance (ddof = 1), which is NaN
\* for a series of one value.
Variance(s) ==
    LET m == Mean(s)
        sq == [t \in 1..Len(s) |-> RMul(RSub(s[t], m), RSub(s[t], m))]
    IN  RDiv(SeqSum(sq, Len(s)), FromInt(Len(s) - 1))

\* x ** n for a natural number n
RECURSIVE RPow(_, _)
RPow(x, n) == IF n = 0 THEN One ELSE RMul(RPow(x, n - 1), x)

\* std() * np.sqrt(periods)
AnnualVol(rets, periods) == Surd(One, RMul(Variance(rets), FromInt(periods)))

\* single_asset_module.py line 129: (1.0 + rets.mean()) ** trading_days - 1.0
CompoundAnnual(rets, trading_days) ==
    RSub(RPow(RAdd(One, Mean(rets)), trading_days), One)

\* portfolio_module.py lines 216, 219: port_returns.mean() * periods_per_year
mean_annual(port_returns, periods_per_year) ==
    RMul(Mean(port_returns), FromInt(periods_per_year))

\* single_asset_module.py line 130: ann_return / vol if vol > 0 else 0.0
SharpeSingle(ann_return, vol) ==
    IF SurdPositive(vol) THEN Surd(ann_return, RDiv(One, vol.rad))
    ELSE Surd(Zero, One)

\* portfolio_module.py lines 222, 236:
\* (mean_annual - rf) / vol_annual if vol_annual > 0 else np.nan
SharpePortfolio(mean_ann, rf, vol_annual) ==
    IF SurdPositive(vol_annual)
    THEN Surd(RSub(mean_ann, rf), RDiv(One, vol_annual.rad))
    ELSE Surd(NaN, NaN)

\* lines 93-100 and 104-111: the result for a frame without holdings
NeutralMetrics(initial_capital) ==
    [kind |-> "dict", Total_Return |-> Zero, Annual_Return |-> Zero,
     Volatility |-> Surd(Zero, One), Sharpe_Ratio |-> Surd(Zero, One),
     Max_Drawdown |-> Zero, Final_Value |-> initial_capital]

\* The values of a Holdings column and of a return series.
HoldingLevels == {FromInt(1), FromInt(2)}
ReturnLevels == {Rat(-1, 2), Zero, Rat(1, 2)}
MetricFunctions == {"calculate_metrics", "compute_portfolio_metrics"}

\* df_strat is None, or a frame of rows 0..MaxMetricRows with or without the
\* columns Holdings and Strategy_Return, whose values may be missing;
\* port_returns is None or a series of returns.
MtInit ==
    /\ \E fn \in MetricFunctions, none \in BOOLEAN, n \in 0..MaxMetricRows,
          hh \in BOOLEAN, hr \in BOOLEAN, c \in InitialCapitals, p \in 1..MaxPeriods :
        \E h \in (IF hh THEN [1..n -> HoldingLevels \cup {NaN}] ELSE {<<>>}),
           r \in (IF hr THEN [1..n -> ReturnLevels \cup {NaN}] ELSE {<<>>}),
           pr \in [1..n -> ReturnLevels] :
          /\ none => (n = 0 /\ ~hh /\ ~hr)
          /\ (fn = "calculate_metrics") => pr = [t \in 1..n |-> Zero]
          /\ (fn = "compute_portfolio_metrics") =>
                (~hh /\ ~hr /\ c = FromInt(1))
          /\ mt = [pc |-> "start", fn |-> fn, is_none |-> none, rows |-> n,
                   has_holdings |-> hh, has_returns |-> hr,
                   Holdings |-> h, Strategy_Return |-> r, port_returns |-> pr,
                   initial_capital |-> c, periods |-> p, rf |-> Zero,
                   holdings |-> <<>>, final_value |-> Zero, total_return |-> Zero,
                   rets |-> <<>>, vol |-> Surd(Zero, One), ann_return |-> Zero,
                   sharpe |-> Surd(Zero, One), result |-> [kind |-> "pending"]]
    /\ mom = Idle /\ pf = Idle /\ nw = Idle /\ dd = Idle /\ bh = Idle
    /\ rc = Idle /\ fc = Idle

\* line 91: df_strat is None or df_strat.empty or "Holdings" not in columns;
\* lines 102-103: or the Holdings column has no value at all
CmDegenerate ==
    \/ mt.is_none
    \/ mt.rows = 0 \/ (~mt.has_holdings /\ ~mt.has_returns)
    \/ ~mt.has_holdings
    \/ DropNa(mt.Holdings) = <<>>

\* lines 91-111
CmNeutral ==
    /\ mt.fn = "calculate_metrics" /\ mt.pc = "start"
    /\ CmDegenerate
    /\ mt' = [mt EXCEPT !.pc = "done", !.result = NeutralMetrics(mt.initial_capital)]
    /\ UNCHANGED <<mom, pf, nw, dd, bh, rc, fc>>

\* lines 102-114
CmTotalReturn ==
    /\ mt.fn = "calculate_metrics" /\ mt.pc = "start"
    /\ ~CmDegenerate
    /\ LET holdings == DropNa(mt.Holdings)
           final_value == holdings[Len(holdings)]
       IN  mt' = [mt EXCEPT !.pc = "valued", !.holdings = holdings,
                            !.final_value = final_value,
                            !.total_return =
                                RSub(RDiv(final_value, mt.initial_capital), One)]
    /\ UNCHANGED <<mom, pf, nw, dd, bh, rc, fc>>

\* lines 117-130
CmReturnStats ==
    /\ mt.fn = "calculate_metrics" /\ mt.pc = "valued"
    /\ LET rets == IF mt.has_returns THEN DropNa(mt.Strategy_Return)
                   ELSE DropNa(PctChange(mt.holdings))
           vol == AnnualVol(rets, mt.periods)
           ann_return == CompoundAnnual(rets, mt.periods)
       IN  mt' = IF rets = <<>>
                 THEN [mt EXCEPT !.pc = "stats", !.rets = rets]
                 ELSE [mt EXCEPT !.pc = "stats", !.rets = rets, !.vol = vol,
                                 !.ann_return = ann_return,
                                 !.sharpe = SharpeSingle(ann_return, vol)]
    /\ UNCHANGED <<mom, pf, nw, dd, bh, rc, fc>>

\* lines 132-140
CmReturn ==
    /\ mt.fn = "calculate_metrics" /\ mt.pc = "stats"
    /\ mt' = [mt EXCEPT !.pc = "done",
                        !.result = [kind |-> "dict",
                                    Total_Return |-> mt.total_return,
                                    Annual_Return |-> mt.ann_return,
                                    Volatility |-> mt.vol,
                                    Sharpe_Ratio |-> mt.sharpe,
                                    Max_Drawdown |-> _max_drawdown(mt.holdings),
                                    Final_Value |-> mt.final_value]]
    /\ UNCHANGED <<mom, pf, nw, dd, bh, rc, fc>>

\* lines 213-214: port_returns is None or port_returns.empty
PmDegenerate == mt.is_none \/ mt.port_returns = <<>>

\* portfolio_module.py lines 213-214
PmNone ==
    /\ mt.fn = "compute_portfolio_metrics" /\ mt.pc = "start"
    /\ PmDegenerate
    /\ mt' = [mt EXCEPT !.pc = "done", !.result = [kind |-> "None"]]
    /\ UNCHANGED <<mom, pf, nw, dd, bh, rc, fc>>

\* portfolio_module.py lines 216-222
PmMoments ==
    /\ mt.fn = "compute_portfolio_metrics" /\ mt.pc = "start"
    /\ ~PmDegenerate
    /\ LET vol_annual == AnnualVol(mt.port_returns, mt.periods)
           m == mean_annual(mt.port_returns, mt.periods)
       IN  mt' = [mt EXCEPT !.pc = "stats", !.rets = mt.port_returns,
                            !.vol = vol_annual, !.ann_return = m,
                            !.sharpe = SharpePortfolio(m, mt.rf, vol_annual)]
    /\ UNCHANGED <<mom, pf, nw, dd, bh, rc, fc>>

\* portfolio_module.py lines 224-239
PmReturn ==
    /\ mt.fn = "compute_portfolio_metrics" /\ mt.pc = "stats"
    /\ LET cum_value == CumValue(mt.port_returns)
       IN  mt' = [mt EXCEPT !.pc = "done",
                            !.result = [kind |-> "dict",
                                        mean_annual |-> mt.ann_return,
                                        vol_annual |-> mt.vol,
                                        sharpe |-> mt.sharpe,
                                        max_drawdown |-> MaxDD(cum_value),
                                        cum_value |-> cum_value]]
    /\ UNCHANGED <<mom, pf, nw, dd, bh, rc, fc>>

MtNext ==
    \/ CmNeutral
    \/ CmTotalReturn
    \/ CmReturnStats
    \/ CmReturn
    \/ PmNone
    \/ PmMoments
    \/ PmReturn

SpecMetrics == MtInit /\ [][MtNext]_vars

\* A calculator has returned its metrics for a non-empty return series.
MtComputed == mt.pc = "done" /\ mt.result.kind = "dict" /\ mt.rets # <<>>

ReportedSharpe ==
    IF mt.fn = "calculate_metrics" THEN mt.result.Sharpe_Ratio ELSE mt.result.sharpe
ReportedVolatility ==
    IF mt.fn = "calculate_metrics" THEN mt.result.Volatility ELSE mt.result.vol_annual
ReportedAnnualReturn ==
    IF mt.fn = "calculate_metrics" THEN mt.result.Annual_Return ELSE mt.result.mean_annual

\* C11: whenever the annualized volatility of the input returns is exactly 0
\* (a flat return series), the Sharpe ratio reported by calculate_metrics and
\* by compute_portfolio_metrics is not-a-number.
C11_FlatSeriesSharpeIsNaN ==
    (MtComputed /\ SurdIsZero(ReportedVolatility)) => SurdIsNaN(ReportedSharpe)

\* C12: for a degenerate input (a missing or empty series, or a Holdings
\* column without any value) both calculators return a neutral result in which
\* every metric is zero and the final value equals the initial capital.
C12_DegenerateInputIsNeutral ==
    (mt.pc = "done" /\ (IF mt.fn = "calculate_metrics" THEN CmDegenerate
                        ELSE PmDegenerate)) =>
        /\ mt.result.kind = "dict"
        /\ mt.fn = "calculate_metrics" => mt.result = NeutralMetrics(mt.initial_capital)
        /\ mt.fn = "compute_portfolio_metrics" =>
              /\ mt.result.mean_annual = Zero
              /\ SurdIsZero(mt.result.vol_annual)
              /\ SurdIsZero(mt.result.sharpe)
              /\ mt.result.max_drawdown = Zero

\* C13: the annual return reported by calculate_metrics ("Annual Return") and
\* by compute_portfolio_metrics ("mean_annual") equals
\* (1 + mean periodic return) ^ periods_per_year - 1 for every non-empty return
\* series.
C13_AnnualReturnCompounds ==
    MtComputed =>
        ReportedAnnualReturn = RSub(RPow(RAdd(One, Mean(mt.rets)), mt.periods), One)

-----------------------------------------------------------------------------
(* compute_risk_contributions (portfolio_module.py, lines 244-273).        *)

\* Most rows of a return table given to compute_risk_contributions.
MaxRiskRows == 3

\* Raw weights of either sign: the all-zero vector and every vector over
\* -1..MaxWeight whose entries have no common factor.
RiskWeights ==
    {w \in [Assets -> {FromInt(x) : x \in (-1)..MaxWeight}] :
        \/ \A a \in Assets : w[a] = Zero
        \/ /\ \E a \in Assets : w[a] # Zero
           /\ \A g \in 2..MaxWeight : \E a \in Assets : w[a][1] % g # 0}

\* The rows of a return table: every asset's return is one of ReturnLevels.
\* The covariance does not depend on the order of the rows, so the tables
\* are taken with their rows in one order (non-decreasing RowCode).
RiskRows == [Assets -> ReturnLevels]
\* An injective integer code of a row (the levels are -1/2, 0 and 1/2).
RowCode(row) == 4 * row["A"][1] * (3 - row["A"][2]) + row["B"][1] * (3 - row["B"][2])
ReturnTables ==
    UNION {{r \in [1..n -> RiskRows] :
               \A t \in 2..n : RowCode(r[t - 1]) <= RowCode(r[t])} :
           n \in 0..MaxRiskRows}

\* The column `a` of a return table, as a series.
Column(returns, a) == [t \in 1..Len(returns) |-> returns[t][a]]

\* line 256: returns.cov() * periods_per_year.  DataFrame.cov() is the sample
\* covariance (ddof = 1), NaN for a table of one row.
Cov(returns, periods_per_year) ==
    [a \in Assets |-> [b \in Assets |->
        LET n == Len(returns)
            mx == Mean(Column(returns, a))
            my == Mean(Column(returns, b))
            p == [t \in 1..n |-> RMul(RSub(returns[t][a], mx), RSub(returns[t][b], my))]
        IN  RMul(RDiv(SeqSum(p, n), FromInt(n - 1)), FromInt(periods_per_year))]]

\* A variant of MarginalContrib that ignores the covariances between
\* different assets.
MarginalContribDiagonal(cov, w) == [a \in Assets |-> RMul(cov[a][a], w[a])]

\* line 264: cov.values @ w
MarginalContrib(cov, w) ==
    [a \in Assets |-> RSum([b \in Assets |-> RMul(cov[a][b], w[b])], Assets)]

\* line 260: w.T @ cov @ w
PortVar(cov, w) ==
    RSum([a \in Assets |->
             RMul(w[a], RSum([b \in Assets |-> RMul(cov[a][b], w[b])], Assets))],
         Assets)

\* line 265: (w * mrc) / port_var
RiskContrib(w, mrc, port_var) ==
    [a \in Assets |-> RDiv(RMul(w[a], mrc[a]), port_var)]

\* line 273: sort_values("risk_contrib", ascending=False): the labels S in
\* descending order of key, NaN last.
RECURSIVE SortedDesc(_, _)
SortedDesc(S, key) ==
    IF S = {} THEN <<>>
    ELSE LET m == CHOOSE a \in S :
                     \A b \in S : IsNaN(key[b]) \/ RLe(key[b], key[a])
         IN  <<m>> \o SortedDesc(S \ {m}, key)

\* lines 267-273: the rows of the returned frame
RiskFrame(w, mrc, rcs) ==
    LET order == SortedDesc(Assets, rcs)
    IN  [i \in 1..Len(order) |->
            [asset |-> order[i], weight |-> w[order[i]],
             marginal_contrib |-> mrc[order[i]], risk_contrib |-> rcs[order[i]]]]

RcInit ==
    /\ \E returns \in ReturnTables, weights \in RiskWeights, p \in 1..MaxPeriods :
          rc = [pc |-> "start", returns |-> returns, weights |-> weights,
                periods_per_year |-> p, cov |-> <<>>, w |-> <<>>,
                port_var |-> NaN, result |-> <<>>]
    /\ mom = Idle /\ pf = Idle /\ nw = Idle /\ dd = Idle /\ bh = Idle
    /\ mt = Idle /\ fc = Idle

\* lines 253-254
RcEmpty ==
    /\ rc.pc = "start" /\ rc.returns = <<>>
    /\ rc' = [rc EXCEPT !.pc = "done", !.result = <<>>]
    /\ UNCHANGED <<mom, pf, nw, dd, bh, mt, fc>>

\* lines 256-258
RcCovariance ==
    /\ rc.pc = "start" /\ rc.returns # <<>>
    /\ rc' = [rc EXCEPT !.pc = "cov",
                        !.cov = Cov(rc.returns, rc.periods_per_year),
                        !.w = normalize_weights(rc.weights, Assets)]
    /\ UNCHANGED <<mom, pf, nw, dd, bh, mt, fc>>

\* lines 260-262: port_var <= 0
RcNoVariance ==
    /\ rc.pc = "cov"
    /\ LET port_var == PortVar(rc.cov, rc.w)
       IN  /\ RLe(port_var, Zero)
           /\ rc' = [rc EXCEPT !.pc = "done", !.port_var = port_var, !.result = <<>>]
    /\ UNCHANGED <<mom, pf, nw, dd, bh, mt, fc>>

\* lines 260-273
RcContributions ==
    /\ rc.pc = "cov"
    /\ LET port_var == PortVar(rc.cov, rc.w)
           mrc == MarginalContrib(rc.cov, rc.w)
       IN  /\ ~RLe(port_var, Zero)
           /\ rc' = [rc EXCEPT !.pc = "done", !.port_var = port_var,
                               !.result = RiskFrame(rc.w, mrc,
                                              RiskContrib(rc.w, mrc, port_var))]
    /\ UNCHANGED <<mom, pf, nw, dd, bh, mt, fc>>

RcNext ==
    \/ RcEmpty
    \/ RcCovariance
    \/ RcNoVariance
    \/ RcContributions

SpecRisk == RcInit /\ [][RcNext]_vars

\* The sum of the risk_contrib column of the returned frame.
RiskContribSum ==
    SeqSum([i \in 1..Len(rc.result) |-> rc.result[i].risk_contrib], Len(rc.result))

\* C14: when the portfolio variance w' Cov w is positive, the risk_contrib
\* values returned by compute_risk_contributions (one row per asset) sum to 1;
\* when it is <= 0 the function returns an empty frame and divides nothing.
C14_RiskContributionsSumToOne ==
    (rc.pc = "done" /\ rc.returns # <<>>) =>
        LET port_var == PortVar(rc.cov, rc.w)
        IN  /\ RGt(port_var, Zero) =>
                  /\ {rc.result[i].asset : i \in 1..Len(rc.result)} = Assets
                  /\ Len(rc.result) = Cardinality(Assets)
                  /\ RiskContribSum = One
            /\ RLe(port_var, Zero) => rc.result = <<>>

\* C14 witness: a portfolio of positive variance whose assets move against
\* each other, so that one risk contribution is negative and the other
\* exceeds 1.
C14_HedgedPortfolio ==
    /\ rc.pc = "done"
    /\ RGt(rc.port_var, Zero)
    /\ Len(rc.result) = Cardinality(Assets)
    /\ RLt(rc.result[Len(rc.result)].risk_contrib, Zero)
    /\ RGt(rc.result[1].risk_contrib, One)

-----------------------------------------------------------------------------
(* run_predictive_model (single_asset_module.py, lines 146-187), run on a  *)
(* Close series that lies on the line price_t = 100 + t.                   *)

\* Longest Close series given to run_predictive_model.
MaxPrices == 16
\* Largest forecast_days.
MaxHorizon == 3

\* The observed price of row t (counted from 0).
LinePrice(t) == FromInt(100 + t)

\* lines 153-158: the rows left by dropna() once the five lag columns exist;
\* row i holds y = Close[i + 5] and X = (Lag_1, ..., Lag_5).
LagRows(Close) ==
    [i \in 1..(IF Len(Close) > 5 THEN Len(Close) - 5 ELSE 0) |->
        [y |-> Close[i + 5], X |-> [j \in 1..5 |-> Close[i + 5 - j]]]]

\* line 160: int(len(df) * 0.8)
SplitAt(m) == (4 * m) \div 5

\* lines 164-165: LinearRegression().fit(X_train, y_train), which centres
\* the columns and returns the least-squares solution of minimum norm
\* (scipy.linalg.lstsq).  For a series on a line the five lag columns differ
\* by constants, so the centred columns are all equal to one column u: the
\* minimum-norm solution spreads the slope of y on u evenly over the five
\* coefficients (and is 0 when u = 0, a single training row).
Fit(train) ==
    LET n == Len(train)
        ybar == Mean([i \in 1..n |-> train[i].y])
        xbar == [j \in 1..5 |-> Mean([i \in 1..n |-> train[i].X[j]])]
        u == [i \in 1..n |-> RSub(train[i].X[1], xbar[1])]
        suu == SeqSum([i \in 1..n |-> RMul(u[i], u[i])], n)
        suy == SeqSum([i \in 1..n |-> RMul(u[i], RSub(train[i].y, ybar))], n)
        c == IF suu = Zero THEN Zero ELSE RDiv(RDiv(suy, suu), FromInt(5))
        coef == [j \in 1..5 |-> c]
    IN  [coef |-> coef,
         intercept |-> RSub(ybar, SeqSum([j \in 1..5 |-> RMul(coef[j], xbar[j])], 5))]

\* model.predict(x) for one feature vector
Predict(model, x) ==
    RAdd(model.intercept, SeqSum([j \in 1..5 |-> RMul(model.coef[j], x[j])], 5))

\* line 168: mean_squared_error(y_test, y_pred_test), the square of rmse
MSE(test, model) ==
    LET e == [i \in 1..Len(test) |-> RSub(test[i].y, Predict(model, test[i].X))]
    IN  RDiv(SeqSum([i \in 1..Len(test) |-> RMul(e[i], e[i])], Len(test)),
             FromInt(Len(test)))

\* line 185: r2_score(y_test, y_pred_test), NaN for fewer than two samples
R2(test, model) ==
    LET n == Len(test)
        ybar == Mean([i \in 1..n |-> test[i].y])
        res == SeqSum([i \in 1..n |->
                   LET e == RSub(test[i].y, Predict(model, test[i].X))
                   IN  RMul(e, e)], n)
        tot == SeqSum([i \in 1..n |->
                   LET e == RSub(test[i].y, ybar) IN RMul(e, e)], n)
    IN  IF n < 2 THEN NaN ELSE RSub(One, RDiv(res, tot))

\* lines 177-178: the prediction enters as Lag_1, the oldest lag is dropped
ShiftIn(last_features, pred) == <<pred>> \o SubSeq(last_features, 1, 4)

\* A business day: Monday to Friday.
IsBusinessDay(d) == Weekday(d) < 5

\* pd.bdate_range(start, periods): the first `periods` business days on or
\* after start.
RECURSIVE RollForward(_)
RollForward(d) == IF IsBusinessDay(d) THEN d ELSE RollForward(d + 1)
RECURSIVE bdate_range(_, _)
bdate_range(start, periods) ==
    IF periods = 0 THEN <<>>
    ELSE LET first == RollForward(start)
         IN  <<first>> \o bdate_range(first + 1, periods - 1)

\* The last input date: any day of the week Tuesday 2024-01-30 .. Monday
\* 2024-02-05.
LastDates == 0..6

FcInit ==
    /\ \E n \in 0..MaxPrices, last \in LastDates, forecast_days \in 1..MaxHorizon :
          fc = [pc |-> "start", Close |-> [t \in 1..n |-> LinePrice(t - 1)],
                last_date |-> last, forecast_days |-> forecast_days,
                rows |-> <<>>, split |-> 0,
                model |-> [coef |-> <<>>, intercept |-> Zero], mse |-> NaN,
                confidence_interval |-> Surd(NaN, NaN), last_features |-> <<>>,
                future_preds |-> <<>>, future_dates |-> <<>>, r2 |-> NaN,
                error |-> "none"]
    /\ mom = Idle /\ pf = Idle /\ nw = Idle /\ dd = Idle /\ bh = Idle
    /\ mt = Idle /\ rc = Idle

\* lines 151-162
FcLags ==
    /\ fc.pc = "start"
    /\ LET rows == LagRows(fc.Close)
       IN  fc' = [fc EXCEPT !.pc = "lagged", !.rows = rows, !.split = SplitAt(Len(rows))]
    /\ UNCHANGED <<mom, pf, nw, dd, bh, mt, rc>>

\* lines 164-165 with an empty training set: LinearRegression.fit raises
\* ValueError (no sample)
FcFitFails ==
    /\ fc.pc = "lagged" /\ fc.split = 0
    /\ fc' = [fc EXCEPT !.pc = "failed", !.error = "ValueError"]
    /\ UNCHANGED <<mom, pf, nw, dd, bh, mt, rc>>

\* lines 164-165
FcFit ==
    /\ fc.pc = "lagged" /\ fc.split > 0
    /\ fc' = [fc EXCEPT !.pc = "fitted", !.model = Fit(SubSeq(fc.rows, 1, fc.split))]
    /\ UNCHANGED <<mom, pf, nw, dd, bh, mt, rc>>

\* lines 167-172
FcEvaluate ==
    /\ fc.pc = "fitted"
    /\ LET mse == MSE(SubSeq(fc.rows, fc.split + 1, Len(fc.rows)), fc.model)
       IN  fc' = [fc EXCEPT !.pc = "evaluated", !.mse = mse,
                            !.confidence_interval = Surd(Rat(196, 100), mse),
                            !.last_features = fc.rows[Len(fc.rows)].X]
    /\ UNCHANGED <<mom, pf, nw, dd, bh, mt, rc>>

\* lines 174-178: one iteration of the forecast loop
FcForecastStep ==
    /\ fc.pc = "evaluated" /\ Len(fc.future_preds) < fc.forecast_days
    /\ LET pred == Predict(fc.model, fc.last_features)
       IN  fc' = [fc EXCEPT !.future_preds = Append(fc.future_preds, pred),
                            !.last_features = ShiftIn(fc.last_features, pred)]
    /\ UNCHANGED <<mom, pf, nw, dd, bh, mt, rc>>

\* lines 180-181
FcDates ==
    /\ fc.pc = "evaluated" /\ Len(fc.future_preds) = fc.forecast_days
    /\ fc' = [fc EXCEPT !.pc = "dated",
                        !.future_dates =
                            Tail(bdate_range(fc.last_date, fc.forecast_days + 1))]
    /\ UNCHANGED <<mom, pf, nw, dd, bh, mt, rc>>

\* lines 183-187
FcReturn ==
    /\ fc.pc = "dated"
    /\ fc' = [fc EXCEPT !.pc = "done",
                        !.r2 = R2(SubSeq(fc.rows, fc.split + 1, Len(fc.rows)), fc.model)]
    /\ UNCHANGED <<mom, pf, nw, dd, bh, mt, rc>>

FcNext ==
    \/ FcLags
    \/ FcFitFails
    \/ FcFit
    \/ FcEvaluate
    \/ FcForecastStep
    \/ FcDates
    \/ FcReturn

SpecForecast == FcInit /\ [][FcNext]_vars

\* C15: for the series price_t = 100 + t with last row index T, the k-th
\* forecast of run_predictive_model lies within the band +-1.96 * rmse of the
\* line's value 100 + T + k, for every k in 1..forecast_days.
C15_ForecastContinuesLine ==
    fc.pc = "done" =>
        \A k \in 1..fc.forecast_days :
            LET d == RSub(fc.future_preds[k], LinePrice(Len(fc.Close) - 1 + k))
                w == fc.confidence_interval
            IN  RLe(RMul(d, d), RMul(RMul(w.q, w.q), w.rad))

\* C16: future_dates are exactly the first forecast_days business days
\* (Monday to Friday) strictly after the last input date, in increasing order
\* and without a gap, whatever day of the week the last input date is.
C16_NextBusinessDays ==
    fc.pc \in {"dated", "done"} =>
        /\ Len(fc.future_dates) = fc.forecast_days
        /\ \A k \in 1..Len(fc.future_dates) :
              /\ IsBusinessDay(fc.future_dates[k])
              /\ fc.future_dates[k] > fc.last_date
              /\ k > 1 => fc.future_dates[k] > fc.future_dates[k - 1]
        /\ \A d \in (fc.last_date + 1)..fc.future_dates[Len(fc.future_dates)] :
              IsBusinessDay(d) => d \in Range(fc.future_dates)

\* C17: run_predictive_model fails with InsufficientDataError whenever fewer
\* than 10 complete-lag rows remain, and neither fits a model nor fails with
\* another error.
C17_TooFewRowsRejected ==
    (fc.pc # "start" /\ Len(fc.rows) < 10) =>
        /\ fc.pc \in {"lagged", "failed"}
        /\ fc.pc = "failed" => fc.error = "InsufficientDataError"

-----------------------------------------------------------------------------
(* compute_portfolio_value on any price table (portfolio_module.py, lines  *)
(* 138-182): the table may be None, have no row, or have rows with missing *)
(* prices, which line 157 drops before the run modelled by PfSetup,        *)
(* PfIterate and PfReturn.                                                 *)

\* A row of a raw price table: every price is one of PriceLevels or missing.
RawPriceRows == [Assets -> {FromInt(p) : p \in PriceLevels} \cup {NaN}]

\* A row without a missing price.
Complete(row) == \A a \in Assets : ~IsNaN(row[a])

\* line 157: prices.dropna(), on the rows and on the index
DropNaRows(rows) == SelectSeq(rows, Complete)
DropNaIndex(index, rows) ==
    LET keep == SelectSeq([t \in 1..Len(rows) |-> t], LAMBDA t : Complete(rows[t]))
    IN  [i \in 1..Len(keep) |-> index[keep[i]]]

\* The table is None or a table of 0..MaxRows rows on consecutive days from
\* Tuesday 2024-01-30.
PfInputInit ==
    /\ \E none \in BOOLEAN, n \in 0..MaxRows :
       \E raw \in [1..n -> RawPriceRows], weights \in RawWeights,
          rebalancing \in Schedules :
          /\ none => n = 0
          /\ pf = [pc |-> "input", is_none |-> none,
                   raw_index |-> [t \in 1..n |-> t - 1], raw_prices |-> raw,
                   error |-> "none", index |-> <<>>, prices |-> <<>>,
                   weights |-> weights, rebalancing |-> rebalancing,
                   w |-> <<>>, norm |-> <<>>, V |-> Zero, units |-> <<>>,
                   rebal_dates |-> {}, k |-> 0, out |-> <<>>, reset_dates |-> {}]
    /\ mom = Idle /\ nw = Idle /\ dd = Idle /\ bh = Idle
    /\ mt = Idle /\ rc = Idle /\ fc = Idle

\* lines 154-155: prices is None or prices.empty: an empty Series is returned
PfEmptyReturn ==
    /\ pf.pc = "input"
    /\ pf.is_none \/ pf.raw_prices = <<>>
    /\ pf' = [pf EXCEPT !.pc = "done", !.out = <<>>]
    /\ UNCHANGED <<mom, nw, dd, bh, mt, rc, fc>>

\* line 157, some row is complete
PfDropna ==
    /\ pf.pc = "input"
    /\ ~pf.is_none /\ pf.raw_prices # <<>>
    /\ DropNaRows(pf.raw_prices) # <<>>
    /\ pf' = [pf EXCEPT !.pc = "start",
                        !.index = DropNaIndex(pf.raw_index, pf.raw_prices),
                        !.prices = DropNaRows(pf.raw_prices)]
    /\ UNCHANGED <<mom, nw, dd, bh, mt, rc, fc>>

\* lines 157-162, no row is complete: prices.iloc[0] of a table without rows
\* raises IndexError
PfNoRowLeft ==
    /\ pf.pc = "input"
    /\ ~pf.is_none /\ pf.raw_prices # <<>>
    /\ DropNaRows(pf.raw_prices) = <<>>
    /\ pf' = [pf EXCEPT !.pc = "failed", !.error = "IndexError"]
    /\ UNCHANGED <<mom, nw, dd, bh, mt, rc, fc>>

PfInputNext ==
    \/ PfEmptyReturn
    \/ PfDropna
    \/ PfNoRowLeft
    \/ PfSetup
    \/ PfIterate
    \/ PfReturn

SpecPortfolioInput == PfInputInit /\ [][PfInputNext]_vars

\* C18: compute_portfolio_value fails with EmptyInputError whenever the price
\* table has no row after alignment: when the table is empty and when every
\* one of its rows has a missing value.
C18_NoRowsRejected ==
    (pf.pc # "input" /\ (pf.is_none \/ DropNaRows(pf.raw_prices) = <<>>)) =>
        pf.pc = "failed" /\ pf.error = "EmptyInputError"

-----------------------------------------------------------------------------
(* buy_and_hold_strategy on any Close column (single_asset_module.py,      *)
(* lines 29-46): values may be missing and the first valid price may be    *)
(* zero or negative.                                                       *)

\* A raw Close column: prices -1..2 or missing; only the first valid price
\* is zero or negative (the later ones are positive).
RawCloseSeries ==
    {s \in SeqsOf({FromInt(p) : p \in (-1)..2} \cup {NaN}, 1, MaxBhLen + 1) :
        \A t \in 1..Len(s) :
            (~IsNaN(s[t]) /\ RLe(s[t], Zero)) => \A u \in 1..(t - 1) : IsNaN(s[u])}

BhAnyInit ==
    /\ \E raw \in RawCloseSeries, initial_capital \in FloatInts :
          bh = [pc |-> "raw", raw_Close |-> raw, error |-> "none",
                Close |-> <<>>, initial_capital |-> initial_capital,
                first_price |-> Zero, shares |-> Zero, Holdings |-> <<>>,
                Strategy_Return |-> <<>>]
    /\ mom = Idle /\ pf = Idle /\ nw = Idle /\ dd = Idle
    /\ mt = Idle /\ rc = Idle /\ fc = Idle

\* lines 34-35: out.dropna(subset=["Close"]), some price is valid
BhDropna ==
    /\ bh.pc = "raw" /\ DropNa(bh.raw_Close) # <<>>
    /\ bh' = [bh EXCEPT !.pc = "start", !.Close = DropNa(bh.raw_Close)]
    /\ UNCHANGED <<mom, pf, nw, dd, mt, rc, fc>>

\* lines 34-37, no price is valid: out["Close"].iloc[0] raises IndexError
BhNoPrice ==
    /\ bh.pc = "raw" /\ DropNa(bh.raw_Close) = <<>>
    /\ bh' = [bh EXCEPT !.pc = "failed", !.error = "IndexError"]
    /\ UNCHANGED <<mom, pf, nw, dd, mt, rc, fc>>

\* lines 38-41: first_price <= 0: both columns are NaN on every row and the
\* frame is returned
BhInvalidPrice ==
    /\ bh.pc = "priced"
    /\ RLe(bh.first_price, Zero)
    /\ bh' = [bh EXCEPT !.pc = "done",
                        !.Holdings = [t \in 1..Len(bh.Close) |-> NaN],
                        !.Strategy_Return = [t \in 1..Len(bh.Close) |-> NaN]]
    /\ UNCHANGED <<mom, pf, nw, dd, mt, rc, fc>>

BhAnyNext ==
    \/ BhDropna
    \/ BhNoPrice
    \/ BhFirstPrice
    \/ BhInvalidPrice
    \/ BhHoldings
    \/ BhStrategyReturn

SpecBuyHoldAnyPrice == BhAnyInit /\ [][BhAnyNext]_vars

\* C19: buy_and_hold_strategy fails with InvalidInputError whenever the first
\* valid price is <= 0, and produces no Holdings series in that case.
C19_NonPositivePriceRejected ==
    (/\ bh.pc \notin {"raw", "start", "priced"}
     /\ bh.Close # <<>>
     /\ RLe(bh.Close[1], Zero)) =>
        /\ bh.pc = "failed"
        /\ bh.error = "InvalidInputError"
        /\ bh.Holdings = <<>>
====
